---- MODULE Spec2Model ----
(***************************************************************************)
(* Task orchestration core of project2_ocr/main.py: the background worker  *)
(* OCRLLMWorker, the Qt queued signal channel from the worker threads to   *)
(* the GUI thread, and the MainWindow controller with its modal dialogs    *)
(* (each dialog.exec() runs a nested event loop on the GUI thread).        *)
(* And, as a program of its own, the ConversationManager object of         *)
(* project1_pdf/conversation_manager.py.                                   *)
(***************************************************************************)
EXTENDS Integers, Sequences, FiniteSets, TLC

(***************************************************************************)
(* Bounds of the model.                                                    *)
(***************************************************************************)
\* number of OCRLLMWorker objects ever constructed in one run
MaxAttempts == 2
\* threads of the QThreadPool (QThread::idealThreadCount() of the machine)
maxThreadCount == 2
\* queued signal emissions not yet delivered; a worker that finds the queue
\* full is not scheduled until the GUI thread has delivered one
MaxQueue == 3

Attempts == 1..MaxAttempts

(***************************************************************************)
(* Values.  None is Python's None for the worker slot and the token        *)
(* reference, NoPath for current_image_path.                               *)
(***************************************************************************)
None == 0
NoPath == "None"
\* the image files the user can select; only the first one can be loaded
ImagePaths == {"doc.png", "bad.png"}
Loadable(path) == path = "doc.png"

\* Texts: k is the kind of string, id the attempt (or dialog) that made it.
\* "empty" is "", "blank" a non-empty string of whitespace only.
Text(k, id) == [k |-> k, id |-> id]
Empty == Text("empty", 0)
Blank == Text("blank", 0)
\* "OCR 결과가 없습니다." / "LLM 정제 결과가 없습니다." of ComparisonDialog
Placeholder(which) == Text(which, 0)
\* what the engines return when they succeed: a text of the attempt that asked
RecognitionOutputs(w) == {Text("ocr", w)}
GenerationOutputs(k, w) == {Text(k, w)}
\* truth value of a Python string: only "" is falsy
Truthy(t) == t.k # "empty"
\* str.strip()
strip(t) == IF t.k = "blank" THEN Empty ELSE t

(***************************************************************************)
(* Program constants: the progress checkpoints of OCRLLMWorker.run.        *)
(***************************************************************************)
PROGRESS_OCR_BEGIN == 5
PROGRESS_OCR_START == 10
\* a checkpoint above the one that follows it
PROGRESS_OCR_DONE_late == 50 + 10
PROGRESS_OCR_DONE == 50
PROGRESS_LLM_START == 55
PROGRESS_DONE == 100
PROGRESS_EXPLAIN_START == 10

\* The module-level imports (main.py 22-38).  __main__ (615-634) exits
\* before a MainWindow exists unless all three libraries were imported.
easyocr == TRUE
GPT4All == TRUE
cv2 == TRUE

VARIABLES
  mw,          \* the MainWindow object: its state attributes and buttons
  worker,      \* worker[w]: the w-th OCRLLMWorker constructed (pc "none": not yet)
  stop_event,  \* stop_event[w]: the threading.Event made for worker w, set or not
  nworkers,    \* number of workers constructed so far
  eventQueue,  \* queued signal emissions posted to the GUI thread, in order
  modalStack,  \* open modal dialogs, innermost last; each blocks its handler
  emitted,     \* history: emitted[w], the signals worker w has emitted
  handled,     \* history: handled[w], the signals of w the slots have handled
  cancelInfo,  \* history: per worker, how many results were handled when cancel() set its token
  review,      \* history: per worker, "none", "open" or "decided" comparison dialog
  shutdown,    \* closeEvent: its phase, what waitForDone returned, what it has printed
  conversation_manager,  \* project1_pdf: the module-level ConversationManager object
  added,       \* history: the exchanges add_exchange has logged since the last clear_memory
  returned     \* history: the last get_conversation_history call and what it returned

vars == <<mw, worker, stop_event, nworkers, eventQueue, modalStack,
          emitted, handled, cancelInfo, review, shutdown,
          conversation_manager, added, returned>>

\* the two programs share nothing: a step of one leaves the other where it is
ocrVars == <<mw, worker, stop_event, nworkers, eventQueue, modalStack,
             emitted, handled, cancelInfo, review, shutdown>>
pdfVars == <<conversation_manager, added, returned>>

(***************************************************************************)
(* Signals (WorkerSignals).  wid names the emitting worker object.         *)
(***************************************************************************)
Progress(w, tt, v) == [wid |-> w, sig |-> "progress", task_type |-> tt, value |-> v, data |-> Empty]
Result(w, tt, d) == [wid |-> w, sig |-> "result", task_type |-> tt, value |-> 0, data |-> d]
Error(w) == [wid |-> w, sig |-> "error", task_type |-> "", value |-> 0, data |-> Empty]
Finished(w) == [wid |-> w, sig |-> "finished", task_type |-> "", value |-> 0, data |-> Empty]


(***************************************************************************)
(* OCRLLMWorker.  A worker record is the object's attributes plus pc, the  *)
(* position of its run() on a pool thread.                                 *)
(***************************************************************************)
NoWorker == [pc |-> "none", task_type |-> "", image_path |-> NoPath, text_input |-> Empty,
             ocr_reader |-> FALSE, llm_model |-> FALSE, ocr_text_internal |-> Empty]

\* OCRLLMWorker.__init__ as called by _start_background_worker
OCRLLMWorker(task_type, image_path, text_input, ocr_reader_instance, llm_model_instance) ==
  [pc |-> "queued", task_type |-> task_type, image_path |-> image_path,
   text_input |-> text_input, ocr_reader |-> ocr_reader_instance,
   llm_model |-> llm_model_instance, ocr_text_internal |-> Empty]

\* run() is executing on a pool thread: started, and its last emit not yet done
Executing(w) == worker[w].pc \notin {"none", "queued", "done"}

\* a bug that posts to the front of the GUI thread's queue
postEvent_front(queue, ev) == <<ev>> \o queue

\* a bug that loses an emission when two are already waiting
postEvent_lossy(queue, ev) == IF Len(queue) >= 2 THEN queue ELSE Append(queue, ev)

\* Qt's queued connection: the emission is posted behind those already posted
postEvent(queue, ev) == Append(queue, ev)

\* signal.emit(...) from the pool thread, received by a slot of the GUI thread
Emit(w, ev) ==
  /\ Len(eventQueue) < MaxQueue
  /\ eventQueue' = postEvent(eventQueue, ev)
  /\ emitted' = [emitted EXCEPT ![w] = Append(@, ev)]

NoEmit == UNCHANGED <<eventQueue, emitted>>

Goto(w, pc) == worker' = [worker EXCEPT ![w].pc = pc]

\* a bug that has run() enable the window's analyze button itself
WorkerFrame_writes_window ==
  /\ shutdown.phase # "closed"
  /\ UNCHANGED pdfVars
  /\ mw' = [mw EXCEPT !.analyze_button = TRUE]
  /\ UNCHANGED <<stop_event, nworkers, modalStack, handled, cancelInfo, review, shutdown>>

\* a pool thread runs as long as the process does, and touches nothing else
WorkerFrame ==
  /\ shutdown.phase # "closed"
  /\ UNCHANGED pdfVars
  /\ UNCHANGED <<mw, stop_event, nworkers, modalStack, handled, cancelInfo, review, shutdown>>

\* a bug that goes on whatever the token says
StopCheck_ignored(w, next) == NoEmit /\ Goto(w, next)

\* `if self.stop_event.is_set(): self.signals.finished.emit(); return`:
\* the return leaves the try block, so the finally clause still runs
StopCheck(w, next) ==
  IF stop_event[w]
  THEN Emit(w, Finished(w)) /\ Goto(w, "finally")
  ELSE NoEmit /\ Goto(w, next)

\* QThreadPool hands run() to a free thread; first statements up to progress.emit
W_Begin(w) ==
  /\ worker[w].pc = "queued"
  /\ Cardinality({v \in Attempts : Executing(v)}) < maxThreadCount
  /\ \A v \in Attempts : v < w => worker[v].pc # "queued"
  /\ IF worker[w].task_type = "ocr_correct"
     THEN IF easyocr /\ GPT4All /\ cv2
          THEN Emit(w, Progress(w, "ocr_correct", PROGRESS_OCR_BEGIN)) /\ Goto(w, "validate")
          ELSE NoEmit /\ Goto(w, "except")
     ELSE IF GPT4All
          THEN Emit(w, Progress(w, "explain", PROGRESS_EXPLAIN_START)) /\ Goto(w, "x_validate")
          ELSE NoEmit /\ Goto(w, "except")
  /\ WorkerFrame

\* a bug that goes on to the recognition without testing the image
W_Validate_skipped(w) ==
  /\ worker[w].pc = "validate"
  /\ Emit(w, Progress(w, "ocr_correct", PROGRESS_OCR_START)) /\ Goto(w, "load_ocr")
  /\ WorkerFrame

\* lines 89-98: path check, cv2.imread test, progress 10
W_Validate(w) ==
  /\ worker[w].pc = "validate"
  /\ IF worker[w].image_path = NoPath \/ ~Loadable(worker[w].image_path)
     THEN NoEmit /\ Goto(w, "except")
     ELSE Emit(w, Progress(w, "ocr_correct", PROGRESS_OCR_START)) /\ Goto(w, "load_ocr")
  /\ WorkerFrame

\* lines 99-102: in-task load of the reader when none was preloaded; it may raise
W_LoadOcr(w) ==
  /\ worker[w].pc = "load_ocr"
  /\ NoEmit
  /\ \/ worker' = [worker EXCEPT ![w].ocr_reader = TRUE, ![w].pc = "check1"]
     \/ ~worker[w].ocr_reader /\ Goto(w, "except")
  /\ WorkerFrame

\* lines 104-106
W_Check1(w) ==
  /\ worker[w].pc = "check1"
  /\ StopCheck(w, "readtext")
  /\ WorkerFrame

\* lines 112-115: the recognition engine call, then result.emit("ocr_result", ...)
W_ReadText(w) ==
  /\ worker[w].pc = "readtext"
  /\ \/ \E t \in RecognitionOutputs(w) :
          /\ worker' = [worker EXCEPT ![w].ocr_text_internal = t, ![w].pc = "p50"]
          /\ Emit(w, Result(w, "ocr_result", t))
     \/ NoEmit /\ Goto(w, "except")
  /\ WorkerFrame

\* line 116
W_Progress50(w) ==
  /\ worker[w].pc = "p50"
  /\ Emit(w, Progress(w, "ocr_correct", PROGRESS_OCR_DONE))
  /\ Goto(w, "check2")
  /\ WorkerFrame

\* lines 118-120
W_Check2(w) ==
  /\ worker[w].pc = "check2"
  /\ StopCheck(w, "p55")
  /\ WorkerFrame

\* line 123
W_Progress55(w) ==
  /\ worker[w].pc = "p55"
  /\ Emit(w, Progress(w, "ocr_correct", PROGRESS_LLM_START))
  /\ Goto(w, "load_llm")
  /\ WorkerFrame

\* lines 124-127 (ocr_correct) and 161-164 (explain): in-task load of the model
W_LoadLlm(w) ==
  /\ worker[w].pc \in {"load_llm", "x_load_llm"}
  /\ NoEmit
  /\ \/ worker' = [worker EXCEPT ![w].llm_model = TRUE,
                                 ![w].pc = IF worker[w].pc = "load_llm" THEN "check3" ELSE "x_check"]
     \/ ~worker[w].llm_model /\ Goto(w, "except")
  /\ WorkerFrame

\* lines 139-141
W_Check3(w) ==
  /\ worker[w].pc = "check3"
  /\ StopCheck(w, "generate")
  /\ WorkerFrame

\* lines 143-150: the generation engine call, then result.emit of the stripped text
W_Generate(w) ==
  /\ worker[w].pc = "generate"
  /\ \/ \E corrected_text \in GenerationOutputs("corr", w) :
          /\ Emit(w, Result(w, "corrected_text_result", strip(corrected_text)))
          /\ Goto(w, "p100")
     \/ NoEmit /\ Goto(w, "except")
  /\ WorkerFrame

\* lines 151 and 187
W_Progress100(w) ==
  /\ worker[w].pc = "p100"
  /\ Emit(w, Progress(w, worker[w].task_type, PROGRESS_DONE))
  /\ Goto(w, "finally")
  /\ WorkerFrame

\* a bug that does not look at text_input
W_XValidate_unchecked(w) ==
  /\ worker[w].pc = "x_validate"
  /\ NoEmit
  /\ Goto(w, "x_load_llm")
  /\ WorkerFrame

\* lines 158-159
W_XValidate(w) ==
  /\ worker[w].pc = "x_validate"
  /\ NoEmit
  /\ IF Truthy(worker[w].text_input) THEN Goto(w, "x_load_llm") ELSE Goto(w, "except")
  /\ WorkerFrame

\* lines 166-168
W_XCheck(w) ==
  /\ worker[w].pc = "x_check"
  /\ StopCheck(w, "x_generate")
  /\ WorkerFrame

\* lines 178-186
W_XGenerate(w) ==
  /\ worker[w].pc = "x_generate"
  /\ \/ \E explanation \in GenerationOutputs("expl", w) :
          /\ Emit(w, Result(w, "explanation_result", strip(explanation)))
          /\ Goto(w, "p100")
     \/ NoEmit /\ Goto(w, "except")
  /\ WorkerFrame

\* lines 189-191
W_Except(w) ==
  /\ worker[w].pc = "except"
  /\ Emit(w, Error(w))
  /\ Goto(w, "finally")
  /\ WorkerFrame

\* lines 192-193
W_Finally(w) ==
  /\ worker[w].pc = "finally"
  /\ Emit(w, Finished(w))
  /\ Goto(w, "done")
  /\ WorkerFrame

run(w) ==
  \/ W_Begin(w) \/ W_Validate(w) \/ W_LoadOcr(w) \/ W_Check1(w) \/ W_ReadText(w)
  \/ W_Progress50(w) \/ W_Check2(w) \/ W_Progress55(w) \/ W_LoadLlm(w) \/ W_Check3(w)
  \/ W_Generate(w) \/ W_Progress100(w) \/ W_XValidate(w) \/ W_XCheck(w)
  \/ W_XGenerate(w) \/ W_Except(w) \/ W_Finally(w)


(***************************************************************************)
(* MainWindow.  Its methods are functions on an effect e: the window's     *)
(* attributes after the call (e.mw), the token the call has set            *)
(* (e.cancel), the worker it has constructed and handed to the pool        *)
(* (e.spawn) and the value the call returns (e.ret).                       *)
(***************************************************************************)
Eff(m) == [mw |-> m, cancel |-> None, spawn |-> <<>>, ret |-> FALSE]

\* lines 534-537
set_buttons_for_task_running_state(m, is_running) ==
  [m EXCEPT !.analyze_button = ~is_running /\ m.current_image_path # NoPath,
            !.select_image_button = ~is_running]

\* lines 587-603
reset_ui_after_task(m, full_reset) ==
  LET m1 == [m EXCEPT !.raw_ocr_text = Empty,
                      !.current_corrected_text = Empty,
                      !.final_accepted_text_for_explanation = Empty]
      m2 == IF full_reset
            THEN [m1 EXCEPT !.current_image_path = NoPath, !.analyze_button = FALSE]
            ELSE [m1 EXCEPT !.analyze_button = (m1.current_image_path # NoPath)]
  IN set_buttons_for_task_running_state(m2, FALSE)

\* lines 569-578
cancel_current_worker_if_running(e) ==
  IF e.mw.current_worker_runnable # None /\ e.mw.stop_current_worker_event # None
  THEN [e EXCEPT !.cancel = e.mw.stop_current_worker_event,
                 !.ret = TRUE,
                 !.mw = set_buttons_for_task_running_state(
                          [e.mw EXCEPT !.current_worker_runnable = None,
                                       !.stop_current_worker_event = None], FALSE)]
  ELSE [e EXCEPT !.ret = FALSE]

\* lines 580-585
cancel_or_reset_all_processes(e) ==
  LET e1 == cancel_current_worker_if_running(e)
  IN [e1 EXCEPT !.mw = reset_ui_after_task(e1.mw, TRUE)]

\* lines 432-446
load_image_and_prepare_analysis(e, image_path) ==
  LET e1 == cancel_current_worker_if_running(e)
  IN [e1 EXCEPT !.mw = [e1.mw EXCEPT !.current_image_path = image_path,
                                     !.raw_ocr_text = Empty,
                                     !.current_corrected_text = Empty,
                                     !.final_accepted_text_for_explanation = Empty,
                                     !.analyze_button = TRUE]]

\* a bug that makes the token once: the slot of every later attempt still
\* names the token of the first
StartBackgroundWorker_shared(e, task_type, image_path, text_input) ==
  IF e.mw.current_worker_runnable # None
  THEN e
  ELSE LET w == nworkers + 1
           m1 == [e.mw EXCEPT !.stop_current_worker_event = 1,
                              !.current_worker_runnable = w]
       IN [e EXCEPT !.mw = set_buttons_for_task_running_state(m1, TRUE),
                    !.spawn = <<OCRLLMWorker(task_type, image_path, text_input,
                                             e.mw.ocr_reader_instance,
                                             e.mw.llm_model_instance)>>]

\* lines 448-472: the new worker object is number nworkers + 1 and gets the
\* threading.Event made for it, which carries the same number
StartBackgroundWorker(e, task_type, image_path, text_input) ==
  IF e.mw.current_worker_runnable # None
  THEN e
  ELSE LET w == nworkers + 1
           m1 == [e.mw EXCEPT !.stop_current_worker_event = w,
                              !.current_worker_runnable = w]
       IN [e EXCEPT !.mw = set_buttons_for_task_running_state(m1, TRUE),
                    !.spawn = <<OCRLLMWorker(task_type, image_path, text_input,
                                             e.mw.ocr_reader_instance,
                                             e.mw.llm_model_instance)>>]

\* a bug that starts the task without looking at current_image_path
run_ocr_correction_task_unchecked(e) ==
  StartBackgroundWorker(
    [e EXCEPT !.mw = [e.mw EXCEPT !.raw_ocr_text = Empty,
                                  !.current_corrected_text = Empty]],
    "ocr_correct", e.mw.current_image_path, Empty)

\* lines 474-490; the three QMessageBox.critical branches only return
run_ocr_correction_task(e) ==
  IF e.mw.current_image_path = NoPath THEN e
  ELSE IF ~e.mw.ocr_reader_instance /\ ~easyocr THEN e
  ELSE IF ~e.mw.llm_model_instance /\ ~GPT4All THEN e
  ELSE IF ~cv2 THEN e
  ELSE StartBackgroundWorker(
         [e EXCEPT !.mw = [e.mw EXCEPT !.raw_ocr_text = Empty,
                                       !.current_corrected_text = Empty]],
         "ocr_correct", e.mw.current_image_path, Empty)

\* a bug that explains the stored correction instead of the text it is given
run_explanation_task_corrected(e, text_for_explanation) ==
  IF ~Truthy(text_for_explanation) THEN e
  ELSE IF ~e.mw.llm_model_instance /\ ~GPT4All THEN e
  ELSE StartBackgroundWorker(e, "explain", NoPath, e.mw.current_corrected_text)

\* lines 492-499
run_explanation_task(e, text_for_explanation) ==
  IF ~Truthy(text_for_explanation) THEN e
  ELSE IF ~e.mw.llm_model_instance /\ ~GPT4All THEN e
  ELSE StartBackgroundWorker(e, "explain", NoPath, text_for_explanation)

\* A modal dialog that is open: the dialog object and the slot call it blocks.
Frame(kind, w, image_path, ocr_text, refined_text) ==
  [kind |-> kind, wid |-> w, image_path |-> image_path,
   ocr_text_content |-> ocr_text, refined_text_content |-> refined_text]

\* ComparisonDialog.__init__, lines 199-208
ComparisonDialog(w, image_path, ocr_text, refined_text) ==
  Frame("comparison", w, image_path,
        IF Truthy(ocr_text) THEN ocr_text ELSE Placeholder("no_ocr"),
        IF Truthy(refined_text) THEN refined_text ELSE Placeholder("no_refined"))

\* what the state of the system becomes when a GUI-thread call returns effect e
Apply(e) ==
  /\ mw' = e.mw
  /\ IF e.cancel # None
     THEN /\ stop_event' = [stop_event EXCEPT ![e.cancel] = TRUE]
          /\ cancelInfo' = [cancelInfo EXCEPT ![e.cancel] =
                              Len(SelectSeq(handled[e.cancel], LAMBDA ev : ev.sig = "result"))]
     ELSE UNCHANGED <<stop_event, cancelInfo>>
  /\ IF e.spawn # <<>>
     THEN /\ nworkers < MaxAttempts
          /\ nworkers' = nworkers + 1
          /\ worker' = [worker EXCEPT ![nworkers + 1] = e.spawn[1]]
     ELSE UNCHANGED <<nworkers, worker>>

Top == modalStack[Len(modalStack)]
Pop == SubSeq(modalStack, 1, Len(modalStack) - 1)


(***************************************************************************)
(* The GUI thread.  The main window takes input only while no modal        *)
(* dialog is open; queued signals are delivered by whichever event loop is *)
(* running, the main one or the innermost dialog's.                        *)
(***************************************************************************)
\* the GUI thread is in an event loop (app.exec() or a dialog's exec()), not
\* inside closeEvent and not past it
EventLoop == shutdown.phase = "open" /\ UNCHANGED shutdown /\ UNCHANGED pdfVars

HistFrame == EventLoop /\ UNCHANGED <<emitted, handled, review>>

\* analyze_button.clicked, line 401
ClickAnalyze ==
  /\ modalStack = <<>>
  /\ mw.analyze_button
  /\ Apply(run_ocr_correction_task(Eff(mw)))
  /\ UNCHANGED <<eventQueue, modalStack>>
  /\ HistFrame

\* cancel_task_button.clicked, line 402; the button is always enabled (536)
ClickCancel ==
  /\ modalStack = <<>>
  /\ Apply(cancel_or_reset_all_processes(Eff(mw)))
  /\ UNCHANGED <<eventQueue, modalStack>>
  /\ HistFrame

\* lines 427-430: select_image_button.clicked and a file chosen
open_image_file_dialog(file_path) ==
  /\ modalStack = <<>>
  /\ mw.select_image_button
  /\ Apply(load_image_and_prepare_analysis(Eff(mw), file_path))
  /\ UNCHANGED <<eventQueue, modalStack>>
  /\ HistFrame

\* lines 419-425: an image file dropped on the window
dropEvent(file_path) ==
  /\ modalStack = <<>>
  /\ Apply(load_image_and_prepare_analysis(Eff(mw), file_path))
  /\ UNCHANGED <<eventQueue, modalStack>>
  /\ HistFrame

\* delivery of the oldest queued signal of kind sig to its slot
Deliver(sig) ==
  /\ eventQueue # <<>>
  /\ Head(eventQueue).sig = sig
  /\ eventQueue' = Tail(eventQueue)
  /\ handled' = [handled EXCEPT ![Head(eventQueue).wid] = Append(@, Head(eventQueue))]
  /\ EventLoop
  /\ UNCHANGED <<worker, stop_event, nworkers, emitted, cancelInfo>>

\* lines 513-514: the percentage goes to the progress bar only, which is no
\* part of the state modelled here; the call is recorded in handled
handle_worker_progress ==
  /\ Deliver("progress")
  /\ UNCHANGED <<mw, modalStack, review>>

\* lines 501-504: the "ocr_result" branch
handle_worker_result_ocr ==
  /\ Deliver("result")
  /\ Head(eventQueue).task_type = "ocr_result"
  /\ mw' = [mw EXCEPT !.raw_ocr_text = Head(eventQueue).data]
  /\ UNCHANGED <<modalStack, review>>

\* lines 505-508 with show_comparison_dialog up to dialog.exec(), lines 540-547
handle_worker_result_corrected ==
  /\ Deliver("result")
  /\ Head(eventQueue).task_type = "corrected_text_result"
  /\ LET w == Head(eventQueue).wid
         m1 == [mw EXCEPT !.current_corrected_text = Head(eventQueue).data]
     IN IF m1.current_image_path = NoPath
        THEN /\ mw' = reset_ui_after_task(m1, TRUE)
             /\ UNCHANGED <<modalStack, review>>
        ELSE /\ mw' = m1
             /\ modalStack' = Append(modalStack,
                                ComparisonDialog(w, m1.current_image_path, m1.raw_ocr_text,
                                                 m1.current_corrected_text))
             /\ review' = [review EXCEPT ![w] = "open"]

\* lines 509-510 with show_explanation_dialog up to dialog.exec(), lines 564-566
handle_worker_result_explanation ==
  /\ Deliver("result")
  /\ Head(eventQueue).task_type = "explanation_result"
  /\ modalStack' = Append(modalStack,
                     Frame("explanation", Head(eventQueue).wid, NoPath, Empty, Head(eventQueue).data))
  /\ UNCHANGED <<mw, review>>

\* a bug that leaves the finished worker in the slot
handle_worker_finished_keeps_slot ==
  /\ Deliver("finished")
  /\ mw' = set_buttons_for_task_running_state(mw, FALSE)
  /\ UNCHANGED <<modalStack, review>>

\* lines 516-522
handle_worker_finished ==
  /\ Deliver("finished")
  /\ mw' = [set_buttons_for_task_running_state(mw, FALSE)
            EXCEPT !.current_worker_runnable = None,
                   !.stop_current_worker_event = None]
  /\ UNCHANGED <<modalStack, review>>

\* lines 524-526: handle_worker_error up to the modal QMessageBox.critical
handle_worker_error ==
  /\ Deliver("error")
  /\ modalStack' = Append(modalStack, Frame("error", Head(eventQueue).wid, NoPath, Empty, Empty))
  /\ UNCHANGED <<mw, review>>

DialogFrame == EventLoop /\ UNCHANGED <<eventQueue, emitted, handled>>

\* lines 527-531: the rest of handle_worker_error once the message box is closed
AckError ==
  /\ modalStack # <<>>
  /\ Top.kind = "error"
  /\ modalStack' = Pop
  /\ Apply(Eff(reset_ui_after_task(
       [set_buttons_for_task_running_state(mw, FALSE)
        EXCEPT !.current_worker_runnable = None,
               !.stop_current_worker_event = None], TRUE)))
  /\ UNCHANGED review
  /\ DialogFrame

\* on_redo (273-274), then lines 549-551
ReviewRedo ==
  /\ modalStack # <<>>
  /\ Top.kind = "comparison"
  /\ modalStack' = Pop
  /\ Apply(run_ocr_correction_task(Eff(mw)))
  /\ review' = [review EXCEPT ![Top.wid] = "decided"]
  /\ DialogFrame

\* the texts the user can leave in the editable field of the dialog
EditedTexts(dialog) == {dialog.refined_text_content, Text("edit", dialog.wid), Blank, Empty}

\* on_accept (276-278), get_accepted_text, then lines 552-558:
\* either the explanation task, or the modal QMessageBox.warning
ReviewAccept ==
  /\ modalStack # <<>>
  /\ Top.kind = "comparison"
  /\ \E final_refined_text \in EditedTexts(Top) :
       LET m1 == [mw EXCEPT !.final_accepted_text_for_explanation = final_refined_text]
       IN IF Truthy(final_refined_text) /\ Truthy(strip(final_refined_text))
          THEN /\ Apply(run_explanation_task(Eff(m1), final_refined_text))
               /\ modalStack' = Pop
          ELSE /\ Apply(Eff(m1))
               /\ modalStack' = Append(Pop, Frame("warning", Top.wid, NoPath, Empty, Empty))
  /\ review' = [review EXCEPT ![Top.wid] = "decided"]
  /\ DialogFrame

\* line 559: the warning box closed
AckWarning ==
  /\ modalStack # <<>>
  /\ Top.kind = "warning"
  /\ modalStack' = Pop
  /\ Apply(Eff(reset_ui_after_task(mw, FALSE)))
  /\ UNCHANGED review
  /\ DialogFrame

\* cancel_button -> reject (271), or the dialog closed; lines 560-562
ReviewCancel ==
  /\ modalStack # <<>>
  /\ Top.kind = "comparison"
  /\ modalStack' = Pop
  /\ Apply(Eff(reset_ui_after_task(mw, TRUE)))
  /\ review' = [review EXCEPT ![Top.wid] = "decided"]
  /\ DialogFrame

\* lines 566-567 (ExplanationDialog closed), then line 511
CloseExplanation ==
  /\ modalStack # <<>>
  /\ Top.kind = "explanation"
  /\ modalStack' = Pop
  /\ Apply(Eff(reset_ui_after_task(mw, TRUE)))
  /\ UNCHANGED review
  /\ DialogFrame

(***************************************************************************)
(* closeEvent, lines 606-612.  The window can be closed when no modal      *)
(* dialog blocks it.  waitForDone(2000) blocks the GUI thread: no slot     *)
(* runs while the pool threads go on, until the pool is empty or the two   *)
(* seconds are over.                                                       *)
(***************************************************************************)
\* the pool has a run() that is queued or executing
PoolActive == \E w \in Attempts : worker[w].pc \notin {"none", "done"}

\* lines 607-609: cancel_current_worker_if_running(), print, enter waitForDone
closeEvent_begin ==
  /\ shutdown.phase = "open"
  /\ modalStack = <<>>
  /\ Apply(cancel_current_worker_if_running(Eff(mw)))
  /\ shutdown' = [shutdown EXCEPT !.phase = "waiting",
                                  !.log = Append(@, "thread pool cleanup attempt")]
  /\ UNCHANGED <<eventQueue, modalStack, emitted, handled, review>>
  /\ UNCHANGED pdfVars

\* lines 610-612: waitForDone returns True when the pool is empty, False when
\* the two seconds ended first; its value is dropped, the same line is printed
closeEvent_end ==
  /\ shutdown.phase = "waiting"
  /\ shutdown' = [shutdown EXCEPT !.phase = "closed",
                                  !.waitForDone = ~PoolActive,
                                  !.log = Append(@, "application closed")]
  /\ UNCHANGED <<mw, worker, stop_event, nworkers, eventQueue, modalStack,
                 emitted, handled, cancelInfo, review>>
  /\ UNCHANGED pdfVars

(***************************************************************************)
(* project1_pdf/conversation_manager.py.  A Python string is the sequence  *)
(* of its characters; the labels that get_conversation_history writes      *)
(* before the two texts of an exchange stand as one character each.        *)
(***************************************************************************)
\* largest max_history a ConversationManager is constructed with
MaxHistory == 2
\* add_exchange calls that log an exchange between two clear_memory calls
MaxExchanges == 3
\* largest last_n get_conversation_history is called with
MaxLastN == 3
\* the default of the constructor argument (line 6), used by line 73
max_history_default == 10

\* the user's question (main_app.py 181) and the model's answer (194); the
\* second answer ends with whitespace
UserInputs == {<<"q">>, <<"r">>}
AssistantResponses == {<<"a">>, <<"b", " ">>}
\* datetime.now().strftime("%H:%M:%S"): two calls can fall in the same second
Timestamps == {"09:00:00", "09:00:01"}
LastNs == 0..MaxLastN

\* str.strip() with no argument removes whitespace from both ends
Whitespace == {" ", "\n", "\t"}
RECURSIVE lstrip(_)
lstrip(s) == IF s # <<>> /\ Head(s) \in Whitespace THEN lstrip(Tail(s)) ELSE s
RECURSIVE rstrip(_)
rstrip(s) ==
  IF s # <<>> /\ s[Len(s)] \in Whitespace THEN rstrip(SubSeq(s, 1, Len(s) - 1)) ELSE s
str_strip(s) == rstrip(lstrip(s))

\* Python's seq[start:] : a negative start counts from the end, and either
\* kind is clamped to the sequence
SliceFrom(seq, start) ==
  LET n == Len(seq)
      from == IF start < 0
              THEN (IF n + start < 0 THEN 0 ELSE n + start)
              ELSE (IF start > n THEN n ELSE start)
  IN SubSeq(seq, from + 1, n)

\* lines 6-12; max_token_limit is no field of ConversationBufferMemory, which
\* keeps every message until clear()
ConversationManager(max_history) ==
  [max_history |-> max_history, conversation_log |-> <<>>, memory |-> <<>>]

\* no call of get_conversation_history has returned since the log last changed
NoCall == [called |-> FALSE, last_n |-> 0, history_text |-> <<>>]

\* line 73 has run
ModuleImported(max_history) ==
  /\ conversation_manager = ConversationManager(max_history)
  /\ added = <<>>
  /\ returned = NoCall

\* lines 22-26
Exchange(timestamp, user_input, assistant_response) ==
  [timestamp |-> timestamp, user |-> user_input, assistant |-> assistant_response]

\* a bug that evicts the newest exchange instead of the oldest
add_exchange_evicts_newest(user_input, assistant_response) ==
  /\ Len(added) < MaxExchanges
  /\ \E timestamp \in Timestamps :
       LET exchange == Exchange(timestamp, user_input, assistant_response)
           log == Append(conversation_manager.conversation_log, exchange)
       IN /\ conversation_manager' =
               [conversation_manager EXCEPT
                  !.memory = @ \o << <<"human", user_input>>, <<"ai", assistant_response>> >>,
                  !.conversation_log =
                     IF Len(log) > conversation_manager.max_history
                     THEN SubSeq(log, 1, Len(log) - 1) ELSE log]
          /\ added' = Append(added, exchange)
  /\ returned' = NoCall
  /\ UNCHANGED ocrVars

\* lines 14-34: the two messages go to the LangChain memory, the exchange to
\* the log, and the oldest entry leaves a log that has grown past max_history.
\* With the strings drawn here the memory raises nothing, so the except clause
\* is not entered.
add_exchange(user_input, assistant_response) ==
  /\ Len(added) < MaxExchanges
  /\ \E timestamp \in Timestamps :
       LET exchange == Exchange(timestamp, user_input, assistant_response)
           log == Append(conversation_manager.conversation_log, exchange)
       IN /\ conversation_manager' =
               [conversation_manager EXCEPT
                  !.memory = @ \o << <<"human", user_input>>, <<"ai", assistant_response>> >>,
                  !.conversation_log =
                     IF Len(log) > conversation_manager.max_history
                     THEN Tail(log) ELSE log]
          /\ added' = Append(added, exchange)
  /\ returned' = NoCall
  /\ UNCHANGED ocrVars

\* lines 55-59
clear_memory ==
  /\ conversation_manager' = [conversation_manager EXCEPT !.memory = <<>>,
                                                          !.conversation_log = <<>>]
  /\ added' = <<>>
  /\ returned' = NoCall
  /\ UNCHANGED ocrVars

\* lines 41-43: the two lines written for one exchange
FormatExchange(exchange) ==
  <<"User:", " ">> \o exchange.user \o <<"\n">> \o
  <<"Mediator:", " ">> \o exchange.assistant \o <<"\n", "\n">>
RECURSIVE FormatLog(_)
FormatLog(log) ==
  IF log = <<>> THEN <<>> ELSE FormatExchange(Head(log)) \o FormatLog(Tail(log))

\* lines 36-45, as a function of the log
history_text(conversation_log, last_n) ==
  LET recent_log == IF Len(conversation_log) > last_n
                    THEN SliceFrom(conversation_log, -last_n)
                    ELSE conversation_log
  IN str_strip(FormatLog(recent_log))

\* lines 36-45: the call, which assigns no attribute
get_conversation_history(last_n) ==
  /\ returned' = [called |-> TRUE, last_n |-> last_n,
                  history_text |-> history_text(conversation_manager.conversation_log, last_n)]
  /\ UNCHANGED <<conversation_manager, added>>
  /\ UNCHANGED ocrVars

(***************************************************************************)
(* The system.                                                             *)
(***************************************************************************)
\* the outcomes of the two preloads of MainWindow.__init__ that are explored:
\* <<reader loaded, model loaded>>
PreloadOutcomes == {<<TRUE, TRUE>>, <<FALSE, FALSE>>}

\* MainWindow.__init__, lines 311-358
MainWindowInit(loaded) ==
  /\ mw = [current_image_path |-> NoPath,
           raw_ocr_text |-> Empty,
           current_corrected_text |-> Empty,
           final_accepted_text_for_explanation |-> Empty,
           ocr_reader_instance |-> easyocr /\ loaded[1],
           llm_model_instance |-> GPT4All /\ loaded[2],
           current_worker_runnable |-> None,
           stop_current_worker_event |-> None,
           analyze_button |-> FALSE,
           select_image_button |-> TRUE]
  /\ worker = [w \in Attempts |-> NoWorker]
  /\ stop_event = [w \in Attempts |-> FALSE]
  /\ nworkers = 0
  /\ eventQueue = <<>>
  /\ modalStack = <<>>
  /\ emitted = [w \in Attempts |-> <<>>]
  /\ handled = [w \in Attempts |-> <<>>]
  /\ cancelInfo = [w \in Attempts |-> -1]
  /\ review = [w \in Attempts |-> "none"]
  /\ shutdown = [phase |-> "open", waitForDone |-> FALSE, log |-> <<>>]

\* the OCR application started; the PDF application is not used
Init ==
  /\ \E loaded \in PreloadOutcomes : MainWindowInit(loaded)
  /\ ModuleImported(max_history_default)

\* every step but those of closeEvent
NextWhileOpen ==
  \/ \E w \in Attempts : run(w)
  \/ ClickAnalyze
  \/ ClickCancel
  \/ \E file_path \in ImagePaths : open_image_file_dialog(file_path)
  \/ \E file_path \in ImagePaths : dropEvent(file_path)
  \/ handle_worker_progress
  \/ handle_worker_result_ocr
  \/ handle_worker_result_corrected
  \/ handle_worker_result_explanation
  \/ handle_worker_finished
  \/ handle_worker_error
  \/ AckError
  \/ ReviewRedo
  \/ ReviewAccept
  \/ AckWarning
  \/ ReviewCancel
  \/ CloseExplanation

Next ==
  \/ NextWhileOpen
  \/ closeEvent_begin
  \/ closeEvent_end

Spec == Init /\ [][Next]_vars

\* What the scheduling guarantees: a pool thread that can go on does (engine
\* calls return), the event loop that is running delivers the oldest queued
\* signal, the human answers the dialog that has the input, and waitForDone
\* returns.  Nothing makes the human use the main window.  FairSpec has the
\* behaviours in which the window is never closed.
DeliverQueued ==
  \/ handle_worker_progress
  \/ handle_worker_result_ocr
  \/ handle_worker_result_corrected
  \/ handle_worker_result_explanation
  \/ handle_worker_finished
  \/ handle_worker_error
AnswerDialog ==
  \/ AckError \/ AckWarning \/ CloseExplanation
  \/ ReviewRedo \/ ReviewAccept \/ ReviewCancel
Fairness ==
  /\ \A w \in Attempts : WF_vars(run(w))
  /\ WF_vars(DeliverQueued)
  /\ WF_vars(AnswerDialog)
FairSpec == Init /\ [][NextWhileOpen]_vars /\ Fairness

(***************************************************************************)
(* One OCRLLMWorker on its own: run() for every argument its constructor   *)
(* takes, handed to the pool as _start_background_worker does, with the    *)
(* token set at any moment (the cancel button) and the slots consuming.    *)
(***************************************************************************)
\* the arguments of OCRLLMWorker.__init__ (58-73) that are explored
WorkerTaskTypes == {"ocr_correct", "explain"}
WorkerImagePaths == ImagePaths \cup {NoPath}
WorkerTextInputs == {Empty, Blank, Text("edit", 1)}

\* the window right after _start_background_worker (453-471) has started worker 1
WorkerInit ==
  /\ \E task_type \in WorkerTaskTypes, image_path \in WorkerImagePaths,
        text_input \in WorkerTextInputs, loaded \in PreloadOutcomes :
       /\ mw = [current_image_path |-> image_path,
                raw_ocr_text |-> Empty,
                current_corrected_text |-> Empty,
                final_accepted_text_for_explanation |-> Empty,
                ocr_reader_instance |-> loaded[1],
                llm_model_instance |-> loaded[2],
                current_worker_runnable |-> 1,
                stop_current_worker_event |-> 1,
                analyze_button |-> FALSE,
                select_image_button |-> FALSE]
       /\ worker = [w \in Attempts |->
                     IF w = 1
                     THEN OCRLLMWorker(task_type, image_path, text_input, loaded[1], loaded[2])
                     ELSE NoWorker]
  /\ stop_event = [w \in Attempts |-> FALSE]
  /\ nworkers = 1
  /\ eventQueue = <<>>
  /\ modalStack = <<>>
  /\ emitted = [w \in Attempts |-> <<>>]
  /\ handled = [w \in Attempts |-> <<>>]
  /\ cancelInfo = [w \in Attempts |-> -1]
  /\ review = [w \in Attempts |-> "none"]
  /\ shutdown = [phase |-> "open", waitForDone |-> FALSE, log |-> <<>>]
  /\ ModuleImported(max_history_default)

WorkerNext ==
  \/ run(1)
  \/ ClickCancel
  \/ handle_worker_progress
  \/ handle_worker_result_ocr
  \/ handle_worker_result_corrected
  \/ handle_worker_result_explanation
  \/ handle_worker_finished
  \/ handle_worker_error

WorkerSpec == WorkerInit /\ [][WorkerNext]_vars

(***************************************************************************)
(* The ConversationManager on its own: constructed with any max_history    *)
(* up to the bound, then called in any order.  The OCR application is not  *)
(* used.                                                                   *)
(***************************************************************************)
ConversationInit ==
  /\ \E max_history \in 0..MaxHistory : ModuleImported(max_history)
  /\ MainWindowInit(<<TRUE, TRUE>>)

ConversationNext ==
  \/ \E user_input \in UserInputs, assistant_response \in AssistantResponses :
       add_exchange(user_input, assistant_response)
  \/ clear_memory
  \/ \E last_n \in LastNs : get_conversation_history(last_n)

ConversationSpec == ConversationInit /\ [][ConversationNext]_vars


(***************************************************************************)
(* Properties.                                                             *)
(***************************************************************************)
Sigs(events, sig) == SelectSeq(events, LAMBDA ev : ev.sig = sig)
Results(events, task_type) ==
  SelectSeq(events, LAMBDA ev : ev.sig = "result" /\ ev.task_type = task_type)
Started(w) == worker[w].pc # "none"
\* the slot for w's finished signal has run
FinishedHandled(w) == Sigs(handled[w], "finished") # <<>>

\* C1: single flight - in every reachable state at most one OCRLLMWorker.run
\* is executing (started on a pool thread and its last Finished not yet emitted).
SingleFlight == Cardinality({w \in Attempts : Executing(w)}) <= 1

\* a task is Running (its worker was handed to the pool and run() has not
\* ended) or AwaitingReview (a comparison dialog is open beneath the dialog
\* or window that has the input)
TaskActive ==
  \/ \E w \in Attempts : worker[w].pc \notin {"none", "done"}
  \/ \E i \in 1..(Len(modalStack) - 1) : modalStack[i].kind = "comparison"

\* C2: start fails Busy while a task is Running or AwaitingReview - no step
\* taken in such a state constructs a worker (or allocates a token, or puts a
\* new worker in the slot).
StartFailsBusy ==
  [][TaskActive => /\ nworkers' = nworkers
                   /\ mw'.current_worker_runnable \in {mw.current_worker_runnable, None}]_vars

\* C3: Finished exactly once - every run() emits Finished at most once, exactly
\* once when it has ended, and emits nothing after it.
FinishedExactlyOnce ==
  \A w \in Attempts :
    /\ Len(Sigs(emitted[w], "finished")) <= 1
    /\ worker[w].pc = "done" => Len(Sigs(emitted[w], "finished")) = 1
    /\ \A i \in 1..Len(emitted[w]) : emitted[w][i].sig = "finished" => i = Len(emitted[w])

\* C4: after cancel() has set a worker's token, the slot is not released (start
\* cannot succeed) until that worker's Finished has been handled.
CancelWaitsForFinished ==
  \A w \in Attempts :
    stop_event[w] /\ ~FinishedHandled(w) => mw.current_worker_runnable = w

\* C5: cancel before result - when cancel() set the token of an attempt of which
\* no Result had been handled, no Result of that attempt is ever handled.
CancelBeforeResult ==
  \A w \in Attempts : cancelInfo[w] = 0 => Sigs(handled[w], "result") = <<>>

\* the texts attempt w has produced
TextsOf(w) == {Text("ocr", w), Text("corr", w), Text("expl", w)}
\* attempt w was cancelled or has failed
CancelledOrFailed(w) == stop_event[w] \/ Sigs(emitted[w], "error") # <<>>

\* C6: no stale partial results - once a later task has been started, no text
\* of a cancelled or failed attempt is stored in the window or shown in a dialog.
NoStaleResults ==
  \A w \in Attempts :
    CancelledOrFailed(w) /\ nworkers > w =>
      /\ mw.raw_ocr_text \notin TextsOf(w)
      /\ mw.current_corrected_text \notin TextsOf(w)
      /\ \A i \in 1..Len(modalStack) :
           /\ modalStack[i].ocr_text_content \notin TextsOf(w)
           /\ modalStack[i].refined_text_content \notin TextsOf(w)

\* C7: attempts do not overlap in the event stream - an event of a later
\* attempt is handled only when every event of each earlier attempt was handled.
AttemptsDoNotOverlap ==
  \A w1, w2 \in Attempts :
    w1 < w2 /\ handled[w2] # <<>> =>
      worker[w1].pc = "done" /\ handled[w1] = emitted[w1]

ProgressValues(events) ==
  LET p == Sigs(events, "progress") IN [i \in 1..Len(p) |-> p[i].value]
\* attempt w has ended (its Finished was handled) without error or cancellation
EndedClean(w) ==
  FinishedHandled(w) /\ ~stop_event[w] /\ Sigs(emitted[w], "error") = <<>>

\* C8: progress monotonicity - the percentages handled for one attempt never
\* decrease, and an attempt that ended without error or cancellation has 100 as
\* its last percentage.
ProgressMonotone ==
  \A w \in Attempts :
    LET p == ProgressValues(handled[w])
    IN /\ \A i, j \in 1..Len(p) : i < j => p[i] <= p[j]
       /\ EndedClean(w) => Len(p) > 0 /\ p[Len(p)] = 100

\* C8 witness: an attempt has ended clean with all five checkpoints handled.
ProgressMonotoneWitness ==
  \E w \in Attempts : EndedClean(w) /\ Len(ProgressValues(handled[w])) = 5

\* C9: result ordering - a corrected text is handled only after the raw text of
\* the same attempt; per attempt at most one of each kind of result.
ResultOrdering ==
  \A w \in Attempts :
    LET r == Sigs(handled[w], "result")
    IN /\ \A i \in 1..Len(r) :
            r[i].task_type = "corrected_text_result" =>
              \E j \in 1..(i - 1) : r[j].task_type = "ocr_result"
       /\ Len(Results(handled[w], "ocr_result")) <= 1
       /\ Len(Results(handled[w], "corrected_text_result")) <= 1
       /\ Len(Results(handled[w], "explanation_result")) <= 1
       /\ worker[w].task_type = "explain" => Len(r) <= 1

\* C9 witness: both results of one attempt handled, and an explanation of another.
ResultOrderingWitness ==
  /\ \E w \in Attempts : Len(Sigs(handled[w], "result")) = 2
  /\ \E w \in Attempts : Len(Results(handled[w], "explanation_result")) = 1

\* the signals of the happy path of an "ocr_correct" run, without their data
HappyTrace ==
  << <<"progress", 5>>, <<"progress", 10>>, <<"result", "ocr_result">>,
     <<"progress", 50>>, <<"progress", 55>>, <<"result", "corrected_text_result">>,
     <<"progress", 100>>, <<"finished", 0>> >>
Shape(events) ==
  [i \in 1..Len(events) |->
     IF events[i].sig = "progress" THEN <<"progress", events[i].value>>
     ELSE IF events[i].sig = "result" THEN <<"result", events[i].task_type>>
     ELSE <<events[i].sig, 0>>]
\* the comparison dialog of attempt w is open
AwaitingReview(w) ==
  \E i \in 1..Len(modalStack) : modalStack[i].kind = "comparison" /\ modalStack[i].wid = w

\* C10: happy path - an "ocr_correct" run that was not cancelled and raised
\* nothing emits exactly 5, 10, RawText, 50, 55, CorrectedText, 100, Finished,
\* and once its Finished is handled its comparison dialog is open until the
\* human decides.
HappyPath ==
  \A w \in Attempts :
    worker[w].task_type = "ocr_correct" /\ EndedClean(w) =>
      /\ Shape(emitted[w]) = HappyTrace
      /\ Shape(handled[w]) = HappyTrace
      /\ review[w] # "decided" => AwaitingReview(w)

\* C11: Accept uses the edited text - a step in which the comparison dialog is
\* accepted and a worker is constructed constructs an "explain" worker whose
\* text_input is the text the human left in the dialog's editable field (which
\* the step also stores as final_accepted_text_for_explanation).
AcceptUsesEditedText ==
  [][ReviewAccept /\ nworkers' > nworkers =>
       /\ worker'[nworkers'].task_type = "explain"
       /\ worker'[nworkers'].text_input \in EditedTexts(Top)
       /\ worker'[nworkers'].text_input = mw'.final_accepted_text_for_explanation]_vars

\* C11 witness: an "explain" worker runs on a text the human has edited, while
\* the window held a different corrected text when the dialog opened.
AcceptUsesEditedTextWitness ==
  \E w \in Attempts :
    /\ worker[w].task_type = "explain"
    /\ worker[w].text_input.k = "edit"
    /\ mw.final_accepted_text_for_explanation = worker[w].text_input
    /\ mw.current_corrected_text.k = "corr"

\* C12: Redo restarts - a step in which the comparison dialog is answered with
\* Redo discards the stored raw and corrected texts and constructs a new
\* "ocr_correct" worker for the image the dialog shows, with a new token, and
\* puts it in the slot (the start is not rejected).
RedoRestarts ==
  [][ReviewRedo =>
       /\ mw'.raw_ocr_text = Empty
       /\ mw'.current_corrected_text = Empty
       /\ nworkers' = nworkers + 1
       /\ worker'[nworkers'].task_type = "ocr_correct"
       /\ worker'[nworkers'].image_path = Top.image_path
       /\ mw'.current_worker_runnable = nworkers'
       /\ mw'.stop_current_worker_event = nworkers'
       /\ ~stop_event'[nworkers']]_vars

\* the orchestrator is Idle: no worker in the slot and no dialog open
Idle == mw.current_worker_runnable = None /\ modalStack = <<>>

\* C13: Accept chains into Explain - a step in which the comparison dialog is
\* accepted with a text that is not blank constructs an "explain" worker and
\* puts it in the slot (the start is not dropped), so the state after the
\* decision is not Idle.
AcceptChainsIntoExplain ==
  [][ReviewAccept /\ Truthy(strip(mw'.final_accepted_text_for_explanation)) =>
       /\ nworkers' = nworkers + 1
       /\ worker'[nworkers'].task_type = "explain"
       /\ mw'.current_worker_runnable = nworkers'
       /\ ~Idle']_vars

\* C14: Review Cancel - a step in which the comparison dialog is cancelled or
\* closed discards the stored raw, corrected and accepted texts, constructs no
\* worker, and leaves the orchestrator Idle.
ReviewCancelToIdle ==
  [][ReviewCancel =>
       /\ mw'.raw_ocr_text = Empty
       /\ mw'.current_corrected_text = Empty
       /\ mw'.final_accepted_text_for_explanation = Empty
       /\ nworkers' = nworkers /\ worker' = worker
       /\ Idle']_vars

\* C15: InvalidInput is synchronous - called without an image path,
\* run_ocr_correction_task returns with no effect at all, and so does
\* run_explanation_task called with the empty text: no worker, no token, no
\* change of the slot or of any other attribute; the step that makes such a call
\* (Analyze, or Redo in the comparison dialog) changes neither the window nor
\* the workers nor the signals emitted or queued.
InvalidInputSynchronous ==
  /\ [](/\ mw.current_image_path = NoPath => run_ocr_correction_task(Eff(mw)) = Eff(mw)
        /\ run_explanation_task(Eff(mw), Empty) = Eff(mw))
  /\ [][(ClickAnalyze \/ ReviewRedo) /\ mw.current_image_path = NoPath =>
          UNCHANGED <<mw, worker, nworkers, stop_event, eventQueue, emitted>>]_vars

\* C15 witness: the comparison dialog has the input while the window has no
\* image path, so that Redo calls run_ocr_correction_task without a payload.
InvalidInputSynchronousWitness ==
  /\ modalStack # <<>>
  /\ Top.kind = "comparison"
  /\ mw.current_image_path = NoPath

\* C16: MissingDependency - no step constructs a worker whose task needs an
\* engine that was not loaded at startup: an "ocr_correct" worker only when
\* ocr_reader_instance and llm_model_instance are set, an "explain" worker only
\* when llm_model_instance is set.
MissingDependencyFails ==
  [][nworkers' > nworkers =>
       /\ mw.llm_model_instance
       /\ worker'[nworkers'].task_type = "ocr_correct" => mw.ocr_reader_instance]_vars

\* an engine call of attempt w has raised: w has emitted Error, and not for an
\* image that cannot be read (lines 89-95)
EngineFailed(w) ==
  /\ Sigs(emitted[w], "error") # <<>>
  /\ worker[w].task_type = "ocr_correct" => Loadable(worker[w].image_path)
\* the message box of the Error of an engine failure is open (not acknowledged)
ErrorUnacknowledged ==
  \E i \in 1..Len(modalStack) : modalStack[i].kind = "error" /\ EngineFailed(modalStack[i].wid)
\* the dialog that has the input offers a decision that would construct a worker
StartPossibleInDialog ==
  /\ modalStack # <<>>
  /\ Top.kind = "comparison"
  /\ \/ run_ocr_correction_task(Eff(mw)).spawn # <<>>
     \/ \E t \in EditedTexts(Top) :
          Truthy(strip(t)) /\ run_explanation_task(Eff(mw), t).spawn # <<>>

\* C17: EngineFailure protocol - a worker emits at most one Error, after it
\* nothing but one Finished (no Result), and while the message box of the
\* Error is open the orchestrator is not Idle and no start is possible.
EngineFailureProtocol ==
  /\ \A w \in Attempts :
       LET e == emitted[w]
       IN /\ Len(Sigs(e, "error")) <= 1
          /\ \A i \in 1..Len(e) :
               e[i].sig = "error" =>
                 /\ \A j \in (i + 1)..Len(e) : e[j].sig = "finished"
                 /\ Len(e) <= i + 1
                 /\ worker[w].pc = "done" => Len(e) = i + 1
  /\ ErrorUnacknowledged => ~Idle /\ ~StartPossibleInDialog

\* C18: cancellation stops results - once cancel() has set the token of an
\* attempt, no step makes that attempt emit a further Result.
CancellationStopsResults ==
  [][\A w \in Attempts :
       stop_event[w] => Sigs(emitted'[w], "result") = Sigs(emitted[w], "result")]_vars

\* closeEvent has put on record that the shutdown was not clean
UncleanShutdownRecorded ==
  \E i \in 1..Len(shutdown.log) :
    shutdown.log[i] \notin {"thread pool cleanup attempt", "application closed"}

\* C20: shutdown protocol - once closeEvent has called
\* cancel_current_worker_if_running the slot holds no worker (the one it held
\* has its token set); and when closeEvent is through, an unclean shutdown is
\* on record exactly when waitForDone gave up with a run() still in the pool.
ShutdownProtocol ==
  /\ shutdown.phase # "open" => mw.current_worker_runnable = None
  /\ shutdown.phase = "closed" => (UncleanShutdownRecorded <=> ~shutdown.waitForDone)

\* C19: return to Idle - as long as the window is not closed, the system is
\* always eventually Idle (no worker in the slot, no dialog open), whatever the
\* outcome of the attempts before; and in an Idle state a start with valid
\* input constructs a worker.
ReturnToIdle ==
  /\ []<>Idle
  /\ [](Idle => /\ StartBackgroundWorker(Eff(mw), "ocr_correct", "doc.png", Empty).spawn # <<>>
                /\ StartBackgroundWorker(Eff(mw), "explain", NoPath, Text("edit", 1)).spawn # <<>>)

\* C19 witness: Idle again after Completed - the explanation of an accepted
\* text was presented and closed, both workers are through, nothing is queued.
ReturnToIdleWitness ==
  /\ Idle
  /\ eventQueue = <<>>
  /\ \E w \in Attempts : Results(handled[w], "explanation_result") # <<>> /\ EndedClean(w)
  /\ \A w \in Attempts : worker[w].pc = "done"

\* the signals of attempt w that are posted and not yet delivered, in order
Queued(w) == SelectSeq(eventQueue, LAMBDA ev : ev.wid = w)

OpenedBy(kind) ==
  IF kind = "error" THEN <<"error", 0>>
  ELSE IF kind = "explanation" THEN <<"result", "explanation_result">>
  ELSE <<"result", "corrected_text_result">>

\* C22: events are processed strictly in arrival order - while the slot of a
\* signal is blocked in a dialog (the comparison dialog, its warning box, the
\* explanation dialog, the error box), no later signal of that attempt has been
\* handled: the last signal handled for the attempt is the one that opened the
\* dialog.
HandlersNotInterleaved ==
  \A i \in 1..Len(modalStack) :
    LET h == Shape(handled[modalStack[i].wid])
    IN h[Len(h)] = OpenedBy(modalStack[i].kind)

IsPrefix(s, t) == Len(s) <= Len(t) /\ s = SubSeq(t, 1, Len(s))
\* the signals of an "explain" run that succeeds, and of one without a text
ExplainTrace ==
  << <<"progress", 10>>, <<"result", "explanation_result">>,
     <<"progress", 100>>, <<"finished", 0>> >>
ExplainNoTextTrace == << <<"progress", 10>>, <<"error", 0>>, <<"finished", 0>> >>

\* C23: Explain trace - an "explain" run with a text that is not empty, not
\* cancelled and without an exception emits Progress(10), Result(Explanation),
\* Progress(100), Finished, in this order and nothing else; with the empty text
\* it emits Progress(10), Error, Finished and no Result.
ExplainTraceShape ==
  \A w \in Attempts :
    worker[w].task_type = "explain" =>
      LET e == Shape(emitted[w])
      IN IF Truthy(worker[w].text_input)
         THEN ~stop_event[w] /\ Sigs(emitted[w], "error") = <<>> =>
                /\ IsPrefix(e, ExplainTrace)
                /\ worker[w].pc = "done" => e = ExplainTrace
         ELSE /\ IsPrefix(e, ExplainNoTextTrace)
              /\ worker[w].pc = "done" => e = ExplainNoTextTrace

\* C23 witness: an "explain" run without a text has ended with all its signals
\* handled.
ExplainTraceShapeWitness ==
  \E w \in Attempts :
    /\ worker[w].task_type = "explain"
    /\ ~Truthy(worker[w].text_input)
    /\ worker[w].pc = "done"
    /\ Shape(handled[w]) = ExplainNoTextTrace

\* the signals of the Correct stage: progress 55, the corrected text, progress 100
CorrectStage(ev) ==
  \/ ev.sig = "progress" /\ ev.value \in {PROGRESS_LLM_START, PROGRESS_DONE}
  \/ ev.sig = "result" /\ ev.task_type = "corrected_text_result"
\* run() of w has left the pipeline at a stop check: only its finally clause is left
StoppedAtCheck(w) ==
  /\ worker[w].pc \in {"finally", "done"}
  /\ Sigs(emitted[w], "finished") # <<>>
  /\ Sigs(emitted[w], "error") = <<>>
  /\ \A i \in 1..Len(emitted[w]) : ~CorrectStage(emitted[w][i])

\* C24: stage-boundary cancellation - the step of the stop check after
\* Progress(50), taken with the token set, emits Finished and leaves the
\* pipeline, and from then on the worker emits no signal of the Correct stage
\* and makes no engine call; the engine calls themselves go on whatever the
\* token says.
StageBoundaryCancellation ==
  [][\A w \in Attempts :
       /\ W_Check2(w) /\ stop_event[w] =>
            emitted'[w] = Append(emitted[w], Finished(w)) /\ StoppedAtCheck(w)'
       /\ StoppedAtCheck(w) =>
            /\ StoppedAtCheck(w)'
            /\ worker'[w].ocr_text_internal = worker[w].ocr_text_internal
       /\ W_ReadText(w) \/ W_Generate(w) \/ W_XGenerate(w) =>
            worker'[w].pc \in {"p50", "p100", "except"}]_vars

\* C24 witness: a run cancelled during the Recognize stage has ended at the
\* check after Progress(50), with the raw text emitted and nothing of the
\* Correct stage.
StageBoundaryCancellationWitness ==
  \E w \in Attempts :
    /\ stop_event[w]
    /\ worker[w].pc = "done"
    /\ Shape(emitted[w]) =
         << <<"progress", 5>>, <<"progress", 10>>, <<"result", "ocr_result">>,
            <<"progress", 50>>, <<"finished", 0>>, <<"finished", 0>> >>

UnloadableTrace == << <<"progress", 5>>, <<"error", 0>>, <<"finished", 0>> >>

\* C25: unloadable image - an "ocr_correct" run whose image path is missing or
\* names a file that cannot be loaded emits Progress(5), one Error and
\* Finished, and nothing else: no Progress(10), no Result; it never gets to the
\* recognition engine.
UnloadableImage ==
  \A w \in Attempts :
    /\ worker[w].task_type = "ocr_correct"
    /\ worker[w].image_path = NoPath \/ ~Loadable(worker[w].image_path)
    => /\ IsPrefix(Shape(emitted[w]), UnloadableTrace)
       /\ worker[w].pc = "done" => Shape(emitted[w]) = UnloadableTrace
       /\ worker[w].pc \in {"queued", "validate", "except", "finally", "done"}
       /\ worker[w].ocr_text_internal = Empty

\* C25 witness: the run on a file that cannot be loaded has ended, cancelled or
\* not, and its three signals were handled.
UnloadableImageWitness ==
  \E w \in Attempts :
    /\ worker[w].task_type = "ocr_correct"
    /\ worker[w].image_path = "bad.png"
    /\ worker[w].pc = "done"
    /\ Shape(handled[w]) = UnloadableTrace

\* C26: fresh token per attempt - a step that constructs a worker makes the
\* token of that worker, unset, and puts it with the worker in the slot; a step
\* that sets a token sets the one in the slot, which belongs to the worker in
\* the slot, and no other; and a token in the slot is always that of the
\* worker beside it.
FreshTokenPerAttempt ==
  /\ [](mw.stop_current_worker_event = mw.current_worker_runnable)
  /\ [][/\ nworkers' > nworkers =>
            /\ mw'.current_worker_runnable = nworkers'
            /\ mw'.stop_current_worker_event = nworkers'
            /\ ~stop_event[nworkers'] /\ ~stop_event'[nworkers']
         /\ \A w \in Attempts :
              stop_event'[w] /\ ~stop_event[w] =>
                /\ mw.stop_current_worker_event = w
                /\ mw.current_worker_runnable = w
                /\ \A v \in Attempts \ {w} : stop_event'[v] = stop_event[v]]_vars

\* C26 witness: the first attempt was cancelled and the second, started by
\* Redo or Accept in the comparison dialog of the first, runs with its own
\* token unset.
FreshTokenPerAttemptWitness ==
  /\ nworkers = 2
  /\ review[1] = "decided"
  /\ stop_event[1] /\ ~stop_event[2]
  /\ Executing(2)
  /\ mw.stop_current_worker_event = 2

\* C27: cancel with no active task is a no-op - a click on the cancel button
\* while the worker slot is empty sets no token and leaves the window's state
\* (image path, stored texts, slot, buttons) as it was; while a task is active
\* the click sets the token of the task in the slot and no other.
CancelIsNoOpWhenIdle ==
  [][ClickCancel =>
       IF mw.current_worker_runnable = None
       THEN UNCHANGED <<mw, stop_event>>
       ELSE stop_event' = [stop_event EXCEPT ![mw.current_worker_runnable] = TRUE]]_vars

\* C28: single-writer state - no step of run() changes the window's state
\* (slot, token reference, raw_ocr_text, current_corrected_text,
\* current_image_path and the rest of mw), opens or closes a dialog, or sets a
\* token: whenever the window's state changes, the step is one of the GUI
\* thread and not one of a worker.
SingleWriter ==
  [][/\ (\E w \in Attempts : run(w)) => UNCHANGED <<mw, modalStack, stop_event>>
     /\ mw' # mw => ~(\E w \in Attempts : run(w))]_vars

\* C28 witness: run() has recognised the text and emitted it, and the window
\* that holds this worker in its slot has not stored any text yet.
SingleWriterWitness ==
  \E w \in Attempts :
    /\ mw.current_worker_runnable = w
    /\ worker[w].ocr_text_internal # Empty
    /\ Len(emitted[w]) >= 3
    /\ mw.raw_ocr_text = Empty

\* C29: a Finished event releases only its own attempt's slot - when
\* handle_worker_finished handles the Finished of attempt N it clears the slot
\* and the token reference if the slot holds attempt N, and leaves both as they
\* are if the slot holds another attempt.
FinishedReleasesOwnSlot ==
  [][handle_worker_finished =>
       IF mw.current_worker_runnable = Head(eventQueue).wid
       THEN /\ mw'.current_worker_runnable = None
            /\ mw'.stop_current_worker_event = None
       ELSE /\ mw'.current_worker_runnable = mw.current_worker_runnable
            /\ mw'.stop_current_worker_event = mw.stop_current_worker_event]_vars

\* C30: a running task stays cancellable - whenever a worker that was started
\* and not cancelled is still executing (in the pool and not yet past its last
\* stage), the window holds that worker in the slot and its token in the token
\* reference, so that cancel sets that worker's token.
RunningStaysCancellable ==
  \A w \in Attempts :
    /\ worker[w].pc \notin {"none", "except", "finally", "done"}
    /\ ~stop_event[w]
    => /\ mw.current_worker_runnable = w
       /\ mw.stop_current_worker_event = w

\* C31: no review for a cancelled attempt - once the token of an "ocr_correct"
\* attempt is set (by the cancel button or by a new image), no step opens the
\* comparison dialog of that attempt, so that no human decision and no
\* explanation can follow from it.
NoReviewForCancelled ==
  [][\A w \in Attempts :
       stop_event[w] /\ worker[w].task_type = "ocr_correct" /\ ~AwaitingReview(w)
         => ~AwaitingReview(w)']_vars

\* C32: blank Accept - a step in which the comparison dialog is accepted with
\* a text that is empty or only whitespace constructs no worker; and the step
\* that ends this decision (the warning box acknowledged) constructs no worker,
\* clears the stored raw, corrected and accepted texts, keeps the image path,
\* and leaves the orchestrator Idle.
BlankAcceptToIdle ==
  [][/\ ReviewAccept /\ ~Truthy(strip(mw'.final_accepted_text_for_explanation)) =>
          nworkers' = nworkers /\ worker' = worker
     /\ AckWarning =>
          /\ nworkers' = nworkers /\ worker' = worker
          /\ mw'.raw_ocr_text = Empty
          /\ mw'.current_corrected_text = Empty
          /\ mw'.final_accepted_text_for_explanation = Empty
          /\ mw'.current_image_path = mw.current_image_path
          /\ Idle']_vars

\* the last k elements of a sequence, in their order
LastK(seq, k) == SubSeq(seq, Len(seq) - k + 1, Len(seq))
Min(a, b) == IF a < b THEN a ELSE b

\* C33: bounded conversation log - after any sequence of add_exchange and
\* clear_memory calls the log is no longer than max_history and holds the
\* most recent min(k, max_history) of the k exchanges added since the last
\* clear_memory, oldest first; and clear_memory leaves the log empty.
BoundedConversationLog ==
  /\ [](/\ Len(conversation_manager.conversation_log) <= conversation_manager.max_history
        /\ conversation_manager.conversation_log =
             LastK(added, Min(Len(added), conversation_manager.max_history)))
  /\ [][clear_memory => conversation_manager'.conversation_log = <<>>]_vars

\* C33 witness: more exchanges were added than max_history allows, the oldest
\* ones were evicted and the log is full.
BoundedConversationLogWitness ==
  /\ conversation_manager.max_history = 2
  /\ Len(added) = 3
  /\ added[1] # added[2] /\ added[2] # added[3]
  /\ conversation_manager.conversation_log = <<added[2], added[3]>>

\* C34: get_conversation_history(last_n) returns the most recent n exchanges -
\* for a log of length L and last_n >= 0 the text returned is the one built
\* from the last min(last_n, L) exchanges of the log, oldest first, and the
\* call leaves the log as it was.
HistoryOfLastN ==
  /\ [](returned.called =>
          returned.history_text =
            str_strip(FormatLog(LastK(conversation_manager.conversation_log,
                                      Min(returned.last_n,
                                          Len(conversation_manager.conversation_log))))))
  /\ [][(\E last_n \in LastNs : get_conversation_history(last_n))
          => UNCHANGED conversation_manager]_vars

====
